---- MODULE Spec2Model ----
(***************************************************************************)
(* A model of mortgage_analyzer.py: calculate_affordability,               *)
(* run_scenario_testing, generate_pdf_report and main.                     *)
(*                                                                         *)
(* Numbers.  The program computes with Python floats (binary floating      *)
(* point, round to nearest, ties to even).  The model keeps that           *)
(* arithmetic at a reduced width: a number is m * 2^e with a significand   *)
(* of Precision bits, and every +, -, *, / rounds its exact result to the  *)
(* nearest such number, ties to even.  The exponent is unbounded, so the   *)
(* model has no overflow, underflow, infinity or NaN; inputs are finite.   *)
(* Division by zero raises ZeroDivisionError, as Python's does.            *)
(*                                                                         *)
(* Layout.  Every vertical position of the report is a multiple of         *)
(* 0.05 inch and every page-break comparison has a slack of at least       *)
(* 0.1 inch, far above the rounding error of a double, so positions are    *)
(* modelled exactly, in twentieths of an inch.                             *)
(***************************************************************************)
EXTENDS Integers, Sequences, FiniteSets, TLC

(***************************************************************************)
(* Bounds of the model.                                                    *)
(***************************************************************************)
\* Bits of significand of the modelled floating-point format.
Precision == 13
\* Longest scenario list handed to generate_pdf_report directly.
MaxScenarios == 13
\* Invocations of one entry point in a row (re-running the program).
MaxRuns == 2
\* Clock ticks in a second, and the most ticks between two clock readings.
TicksPerSecond == 2
MaxDelay == 2

(***************************************************************************)
(* Floating point: [m |-> significand, e |-> exponent], value m * 2^e.     *)
(* Canonical form: zero is [m |-> 0, e |-> 0]; otherwise                   *)
(* 2^(Precision-1) <= |m| < 2^Precision.  Equal values are equal records.  *)
(***************************************************************************)
\* The one element of a singleton set.  The float operations bind their
\* operands through singleton sets (a \in {x}), so that an operand that is
\* itself a long computation is evaluated once.
The(S) == CHOOSE v \in S : TRUE

Abs(n) == IF n < 0 THEN -n ELSE n

Sign(n) == IF n < 0 THEN -1 ELSE IF n = 0 THEN 0 ELSE 1

\* Bits of a, 0 <= a < 2^31.
BitLen(a) == Cardinality({j \in 0..30 : 2^j <= a})

FZero == [m |-> 0, e |-> 0]

\* n * 2^e with k low bits of n rounded away (ties to even), k > 0.
RoundAway(n, e, k) ==
    The({The({IF q1 = 2^Precision
              THEN [m |-> Sign(n) * 2^(Precision - 1), e |-> e + k + 1]
              ELSE [m |-> Sign(n) * q1, e |-> e + k] :
              q1 \in {IF (r > half) \/ (r = half /\ q % 2 = 1)
                      THEN q + 1 ELSE q}}) :
         q \in {Abs(n) \div 2^k}, r \in {Abs(n) % 2^k}, half \in {2^(k - 1)}})

\* The float nearest to n * 2^e (ties to even); n any integer.
Round(n, e) ==
    The({IF v = 0 THEN FZero
         ELSE The({IF k <= 0 THEN [m |-> v * 2^(-k), e |-> x + k]
                   ELSE RoundAway(v, x, k) :
                   k \in {BitLen(Abs(v)) - Precision}}) :
         v \in {n}, x \in {e}})

FromInt(n) == Round(n, 0)

FNeg(x) == The({[m |-> -(a.m), e |-> a.e] : a \in {x}})

\* a + b, rounded.  When the exponents are more than Precision + 1 apart the
\* smaller operand is below a quarter of the larger one's last place and the
\* sum rounds to the larger operand.
AddRounded(a, b) ==
    IF a.m = 0 THEN b
    ELSE IF b.m = 0 THEN a
    ELSE IF a.e - b.e > Precision + 1 THEN a
    ELSE IF b.e - a.e > Precision + 1 THEN b
    ELSE IF a.e >= b.e THEN Round(a.m * 2^(a.e - b.e) + b.m, b.e)
    ELSE Round(a.m + b.m * 2^(b.e - a.e), a.e)

FAdd(x, y) == The({AddRounded(a, b) : a \in {x}, b \in {y}})

FSub(x, y) ==
    The({AddRounded(a, [m |-> -(b.m), e |-> b.e]) : a \in {x}, b \in {y}})

FMul(x, y) == The({Round(a.m * b.m, a.e + b.e) : a \in {x}, b \in {y}})

\* a / b, rounded, b # 0: Precision + 2 quotient bits and a sticky bit.
DivRounded(a, b) ==
    LET n  == Abs(a.m) * 2^(Precision + 2)
        d  == Abs(b.m)
        q  == n \div d
        st == IF n % d = 0 THEN 0 ELSE 1
    IN  Round(Sign(a.m) * Sign(b.m) * (2 * q + st),
              a.e - b.e - (Precision + 2) - 1)

FDiv(x, y) == The({DivRounded(a, b) : a \in {x}, b \in {y}})

\* a < b.  Canonical floats of one sign are ordered by (exponent, significand).
Less(a, b) ==
    IF Sign(a.m) # Sign(b.m) THEN Sign(a.m) < Sign(b.m)
    ELSE IF a.m = 0 THEN FALSE
    ELSE IF a.m > 0 THEN (a.e < b.e) \/ (a.e = b.e /\ a.m < b.m)
    ELSE (a.e > b.e) \/ (a.e = b.e /\ a.m < b.m)

FLt(x, y) == \E a \in {x}, b \in {y} : Less(a, b)

FLe(x, y) == \E a \in {x}, b \in {y} : a = b \/ Less(a, b)

FAbs(x) == The({[m |-> Abs(a.m), e |-> a.e] : a \in {x}})

\* x ** n for an integer n >= 0, by squaring, each product rounded.
RECURSIVE PowRounded(_, _)
PowRounded(a, n) ==
    IF n = 0 THEN Round(1, 0)
    ELSE IF n % 2 = 0
         THEN The({Round(h.m * h.m, h.e + h.e) :
                   h \in {The({PowRounded(a, j) : j \in {n \div 2}})}})
         ELSE The({Round(a.m * h.m, a.e + h.e) :
                   h \in {The({PowRounded(a, j) : j \in {n - 1}})}})

FPow(x, n) == The({PowRounded(a, n) : a \in {x}})

(***************************************************************************)
(* calculate_affordability                                                 *)
(***************************************************************************)
INCOME_MULTIPLIER == Round(9, -1)

MORTGAGE_TERM_YEARS == 30

\* An exception leaving a function: its type and the line that raised it.
Raise(exc, line) == [ok |-> FALSE, exc |-> exc, line |-> line]

\* A slip of line 8: a multiplier of 4.
max_loan_of_Times4(income) == FMul(income, FromInt(4))

\* Line 18.
max_loan_of(income) == FMul(income, INCOME_MULTIPLIER)

\* A slip of line 23: the loan taken to be the property price.
loan_amount_of_Price(max_loan_from_income, affordable_property_price) ==
    affordable_property_price

\* Line 23: the loan is the income multiple; the deposit plays no part.
loan_amount_of(max_loan_from_income, affordable_property_price) ==
    max_loan_from_income

\* A slip of line 27: the amortization formula evaluated at any rate.
monthly_payment_of_NoGuard(loan_amount, monthly_interest_rate, number_of_payments) ==
    LET growth == FPow(FAdd(FromInt(1), monthly_interest_rate),
                       number_of_payments)
        denom  == FSub(growth, FromInt(1))
    IN  IF denom = FZero
        THEN Raise("ZeroDivisionError", 28)
        ELSE [ok |-> TRUE,
              value |-> FDiv(FMul(loan_amount,
                                  FMul(monthly_interest_rate, growth)),
                             denom)]

\* Lines 27-30.  A value, or ZeroDivisionError when the amortization
\* denominator (1 + r)**n - 1 is zero.
monthly_payment_of(loan_amount, monthly_interest_rate, number_of_payments) ==
    IF FLt(FZero, monthly_interest_rate)
    THEN LET growth == FPow(FAdd(FromInt(1), monthly_interest_rate),
                            number_of_payments)
             denom  == FSub(growth, FromInt(1))
         IN  IF denom = FZero
             THEN Raise("ZeroDivisionError", 28)
             ELSE [ok |-> TRUE,
                   value |-> FDiv(FMul(loan_amount,
                                       FMul(monthly_interest_rate, growth)),
                                  denom)]
    ELSE [ok |-> TRUE,
          value |-> FDiv(loan_amount, FromInt(number_of_payments))]

\* Line 34 under IEEE division: x / 0 yields a value and the run goes on.
dti_ratio_of_NoRaise(total_monthly_outgoings, gross_monthly_income) ==
    [ok |-> TRUE,
     value |-> IF gross_monthly_income = FZero THEN FZero
               ELSE FMul(FDiv(total_monthly_outgoings, gross_monthly_income),
                         FromInt(100))]

\* Line 34.  A value, or ZeroDivisionError when gross_monthly_income is zero.
dti_ratio_of(total_monthly_outgoings, gross_monthly_income) ==
    IF gross_monthly_income = FZero
    THEN Raise("ZeroDivisionError", 34)
    ELSE [ok |-> TRUE,
          value |-> FMul(FDiv(total_monthly_outgoings, gross_monthly_income),
                         FromInt(100))]

\* Lines 32-46, given the payment: the DTI ratio and the results dict.
results_of(income, deposit, monthly_debts, interest_rate_annual, max_loan_from_income, affordable_property_price, payment) ==
    IF ~payment.ok THEN payment
    ELSE LET total_monthly_outgoings == FAdd(payment.value, monthly_debts)
             gross_monthly_income    == FDiv(income, FromInt(12))
         IN  The({IF ~dti.ok THEN dti
                  ELSE [ok |-> TRUE,
                        income |-> income,
                        deposit |-> deposit,
                        monthly_debts |-> monthly_debts,
                        interest_rate |-> interest_rate_annual,
                        max_loan_amount |-> max_loan_from_income,
                        affordable_property_price |-> affordable_property_price,
                        estimated_monthly_payment |-> payment.value,
                        dti_ratio |-> dti.value] :
                  dti \in {dti_ratio_of(total_monthly_outgoings,
                                        gross_monthly_income)}})

\* Lines 18-46.  Each intermediate value is bound once, as an assignment is.
calculate_affordability(income, deposit, monthly_debts, interest_rate_annual) ==
    The({The({results_of(income, deposit, monthly_debts, interest_rate_annual,
                         max_loan_from_income, affordable_property_price,
                         payment) :
              payment \in
                  {monthly_payment_of(
                       loan_amount_of(max_loan_from_income,
                                      affordable_property_price),
                       monthly_interest_rate, MORTGAGE_TERM_YEARS * 12)}}) :
         max_loan_from_income \in {max_loan_of(income)},
         affordable_property_price \in {FAdd(max_loan_of(income), deposit)},
         monthly_interest_rate \in
             {FDiv(FDiv(interest_rate_annual, FromInt(100)), FromInt(12))}})

(***************************************************************************)
(* run_scenario_testing: the scenarios dict, in insertion order.           *)
(***************************************************************************)
ScenarioTable(base_rate, deposit) ==
    << [name |-> "Base Case", rate |-> base_rate, deposit |-> deposit],
       [name |-> "High Interest Rate (+1.5%)",
        rate |-> FAdd(base_rate, Round(3, -1)), deposit |-> deposit],
       [name |-> "Lower Deposit (-10,000)",
        rate |-> base_rate, deposit |-> FSub(deposit, FromInt(10000))] >>

\* A slip of line 151: "<= 0" for "< 0".
SkipScenario_NonPositive(params) == FLe(params.deposit, FZero)

\* Line 151: the scenario is skipped.
SkipScenario(params) == FLt(params.deposit, FZero)

(***************************************************************************)
(* generate_pdf_report: the page, in twentieths of an inch.                *)
(***************************************************************************)
inch == 20

height == 11 * inch

\* A slip of lines 57 and 63: the cursor starts at the page's top edge.
TopMargin_PageTop == height

\* height - 1*inch, where the cursor starts on every page (lines 57 and 63).
TopMargin == height - 1 * inch

\* 0.75*inch, the disclaimer's fixed height above the page bottom (line 129).
FooterY == (3 * inch) \div 4

\* A slip of lines 61-63: the check never breaks the page.
check_page_break_Never(y_pos, needed_space) == [y |-> y_pos, newpage |-> FALSE]

\* Lines 59-64: the cursor after the check, and whether showPage() ran.
check_page_break(y_pos, needed_space) ==
    IF y_pos < needed_space
    THEN [y |-> TopMargin, newpage |-> TRUE]
    ELSE [y |-> y_pos, newpage |-> FALSE]

\* strftime('%Y%m%d_%H%M%S') of a clock reading: the second it falls in.
Strftime(now) == now \div TicksPerSecond

Draw(page, y, kind, text) == [page |-> page, y |-> y, kind |-> kind, text |-> text]

\* Python's None or a list.
None == [none |-> TRUE, list |-> <<>>]

List(s) == [none |-> FALSE, list |-> s]

\* Truth value of "if scenarios:" (line 109).
Truthy(s) == ~s.none /\ Len(s.list) > 0

NoResult == [ok |-> FALSE, exc |-> "unset", line |-> 0]


(***************************************************************************)
(* Inputs.  The command line (argparse, type=float) and direct callers     *)
(* hand over any float; the model draws them from these sets.              *)
(***************************************************************************)
Incomes == {FromInt(0), FromInt(60000), FromInt(5078)}

Deposits == {FromInt(-5000), FromInt(5000), FromInt(10000), FromInt(20000)}

Debts == {FromInt(300)}

\* -1.5, 0, 5, and a positive rate so small that 1 + rate/1200 rounds to 1.
Rates == {Round(-3, -1), FromInt(0), FromInt(5), Round(1, -(3 * Precision))}

ArgSets ==
    [income : Incomes, deposit : Deposits, debts : Debts, rate : Rates,
     scenario : BOOLEAN]

NoArgs ==
    [income |-> FZero, deposit |-> FZero, debts |-> FZero, rate |-> FZero,
     scenario |-> FALSE]

\* Results handed to generate_pdf_report by a direct caller.
GenData ==
    {calculate_affordability(FromInt(60000), FromInt(20000), FromInt(300), r) :
        r \in {FromInt(0), FromInt(5)}}

ScenarioName(j) ==
    <<"S1", "S2", "S3", "S4", "S5", "S6", "S7", "S8", "S9", "S10", "S11",
      "S12", "S13", "S14", "S15", "S16">>[j]

\* None, the empty list, and the lists of 1 .. MaxScenarios pairs.
GenScenarioLists(data) ==
    {None} \cup {List([j \in 1..n |-> <<ScenarioName(j), data>>]) :
                    n \in 0..MaxScenarios}

Entries == {"main", "run_scenario_testing", "generate_pdf_report"}

(***************************************************************************)
(* State.                                                                  *)
(***************************************************************************)
VARIABLES
    entry,            \* the function the caller invoked
    pc,               \* position in the code
    args,             \* the call's arguments (main: the parsed command line)
    base_results,     \* main's base_results / generate_pdf_report's data
    scenario_results, \* main's scenario_results / generate_pdf_report's scenarios
    i,                \* run_scenario_testing: index of the next scenario
    acc,              \* run_scenario_testing: its local scenario_results
    exc,              \* the exception that ended the call, if any
    filename,         \* generate_pdf_report: filename
    y_pos,            \* generate_pdf_report: y_pos
    page,             \* the canvas's current page, from 1
    drawn,            \* the text drawn on the canvas, in order
    k,                \* generate_pdf_report: index of the next scenario block
    clock,            \* the system clock, in ticks
    written,          \* the filenames saved so far, one per c.save()
    runs              \* invocations started so far

vars ==
    <<entry, pc, args, base_results, scenario_results, i, acc, exc, filename,
      y_pos, page, drawn, k, clock, written, runs>>

calcVars == <<base_results, scenario_results, i, acc, exc>>

genVars == <<filename, y_pos, page, drawn, k>>

envVars == <<clock, written, runs>>

NoExc == [ok |-> TRUE]

StartPc(e) ==
    CASE e = "main" -> "main_calc"
      [] e = "run_scenario_testing" -> "rst_loop"
      [] OTHER -> "gen_open"

Init ==
    /\ entry \in Entries
    /\ pc = StartPc(entry)
    /\ IF entry = "generate_pdf_report"
       THEN /\ args = NoArgs
            /\ base_results \in GenData
            /\ scenario_results \in GenScenarioLists(base_results)
       ELSE /\ args \in ArgSets
            /\ entry = "run_scenario_testing" => ~args.scenario
            /\ base_results = NoResult
            /\ scenario_results = None
    /\ i = 1
    /\ acc = <<>>
    /\ exc = NoExc
    /\ filename = -1
    /\ y_pos = 0
    /\ page = 0
    /\ drawn = <<>>
    /\ k = 1
    /\ clock = 0
    /\ written = <<>>
    /\ runs = 1

(***************************************************************************)
(* main, lines 173-179.                                                    *)
(***************************************************************************)
\* Line 173: base_results = calculate_affordability(...).
Main_Calc ==
    /\ pc = "main_calc"
    /\ LET r == calculate_affordability(args.income, args.deposit, args.debts,
                                        args.rate)
       IN  IF r.ok
           THEN /\ base_results' = r
                /\ pc' = "main_scenario"
                /\ exc' = exc
           ELSE /\ base_results' = base_results
                /\ pc' = "raised"
                /\ exc' = r
    /\ UNCHANGED <<entry, args, scenario_results, i, acc>>
    /\ UNCHANGED genVars
    /\ UNCHANGED envVars

\* Lines 175-177 with --scenario: run_scenario_testing is called.
Main_CallScenarios ==
    /\ pc = "main_scenario"
    /\ args.scenario
    /\ pc' = "rst_loop"
    /\ i' = 1
    /\ acc' = <<>>
    /\ UNCHANGED <<entry, args, base_results, scenario_results, exc>>
    /\ UNCHANGED genVars
    /\ UNCHANGED envVars

\* Lines 175-179 without --scenario: scenario_results stays None.
Main_NoScenarios ==
    /\ pc = "main_scenario"
    /\ ~args.scenario
    /\ scenario_results' = None
    /\ pc' = "gen_open"
    /\ UNCHANGED <<entry, args, base_results, i, acc, exc>>
    /\ UNCHANGED genVars
    /\ UNCHANGED envVars

(***************************************************************************)
(* run_scenario_testing, lines 141-158: one action per loop iteration.     *)
(***************************************************************************)
CurrentScenario == ScenarioTable(args.rate, args.deposit)[i]

\* Lines 151-153: negative deposit, continue.
Rst_Skip ==
    /\ pc = "rst_loop"
    /\ i <= 3
    /\ SkipScenario(CurrentScenario)
    /\ i' = i + 1
    /\ UNCHANGED <<entry, pc, args, base_results, scenario_results, acc, exc>>
    /\ UNCHANGED genVars
    /\ UNCHANGED envVars

\* Lines 155-156: the calculation, appended; its exception propagates.
Rst_Compute ==
    /\ pc = "rst_loop"
    /\ i <= 3
    /\ ~SkipScenario(CurrentScenario)
    /\ LET p == CurrentScenario
           r == calculate_affordability(args.income, p.deposit, args.debts,
                                        p.rate)
       IN  IF r.ok
           THEN /\ acc' = Append(acc, <<p.name, r>>)
                /\ i' = i + 1
                /\ pc' = pc
                /\ exc' = exc
           ELSE /\ acc' = acc
                /\ i' = i
                /\ pc' = "raised"
                /\ exc' = r
    /\ UNCHANGED <<entry, args, base_results, scenario_results>>
    /\ UNCHANGED genVars
    /\ UNCHANGED envVars

\* Line 158: return scenario_results (to main, line 177, or to the caller).
Rst_Return ==
    /\ pc = "rst_loop"
    /\ i > 3
    /\ scenario_results' = List(acc)
    /\ pc' = IF entry = "main" THEN "gen_open" ELSE "returned"
    /\ UNCHANGED <<entry, args, base_results, i, acc, exc>>
    /\ UNCHANGED genVars
    /\ UNCHANGED envVars

(***************************************************************************)
(* generate_pdf_report(base_results, scenario_results), lines 53-132.      *)
(***************************************************************************)
\* Lines 53-57: the filename from the clock, the canvas, the cursor.
Gen_Open ==
    /\ pc = "gen_open"
    /\ \E dt \in 0..MaxDelay :
          /\ clock' = clock + dt
          /\ filename' = Strftime(clock + dt)
    /\ y_pos' = TopMargin
    /\ page' = 1
    /\ drawn' = <<>>
    /\ k' = 1
    /\ pc' = "gen_header"
    /\ UNCHANGED <<entry, args, written, runs>>
    /\ UNCHANGED calcVars

\* Lines 66-73: title and generation time.
Gen_Header ==
    /\ pc = "gen_header"
    /\ drawn' = drawn \o
          << Draw(page, y_pos, "title", "Mortgage Affordability Report"),
             Draw(page, y_pos - inch \div 2, "body", "Report Generated") >>
    /\ y_pos' = y_pos - inch \div 2 - (7 * inch) \div 10
    /\ pc' = "gen_summary"
    /\ UNCHANGED <<entry, args, filename, page, k>>
    /\ UNCHANGED calcVars
    /\ UNCHANGED envVars

\* Lines 75-87: Financial Summary.
Gen_Summary ==
    /\ pc = "gen_summary"
    /\ LET y0 == y_pos
           y1 == y0 - inch \div 2
           y2 == y1 - (3 * inch) \div 10
           y3 == y2 - (3 * inch) \div 10
       IN  /\ drawn' = drawn \o
                << Draw(page, y0, "heading", "Financial Summary"),
                   Draw(page, y1, "body", "income"),
                   Draw(page, y2, "body", "deposit"),
                   Draw(page, y3, "body", "monthly_debts") >>
           /\ y_pos' = y3 - (7 * inch) \div 10
    /\ pc' = "gen_analysis"
    /\ UNCHANGED <<entry, args, filename, page, k>>
    /\ UNCHANGED calcVars
    /\ UNCHANGED envVars

\* Lines 89-106: Affordability Analysis, after a page-break check.
Gen_Analysis ==
    /\ pc = "gen_analysis"
    /\ LET b  == check_page_break(y_pos, 1 * inch)
           pg == IF b.newpage THEN page + 1 ELSE page
           y0 == b.y
           y1 == y0 - inch \div 2
           y2 == y1 - (4 * inch) \div 10
           y3 == y2 - (3 * inch) \div 10
           y4 == y3 - (3 * inch) \div 10
           y5 == y4 - (3 * inch) \div 10
       IN  /\ page' = pg
           /\ drawn' = drawn \o
                << Draw(pg, y0, "heading", "Affordability Analysis"),
                   Draw(pg, y1, "body", "interest_rate"),
                   Draw(pg, y2, "body", "max_loan_amount"),
                   Draw(pg, y3, "body", "affordable_property_price"),
                   Draw(pg, y4, "body", "estimated_monthly_payment"),
                   Draw(pg, y5, "body", "dti_ratio") >>
           /\ y_pos' = y5 - (7 * inch) \div 10
    /\ pc' = "gen_scenarios"
    /\ UNCHANGED <<entry, args, filename, k>>
    /\ UNCHANGED calcVars
    /\ UNCHANGED envVars

\* Lines 109-116: "if scenarios:" holds; the section heading.
Gen_ScenarioHeading ==
    /\ pc = "gen_scenarios"
    /\ Truthy(scenario_results)
    /\ LET b  == check_page_break(y_pos, 2 * inch)
           pg == IF b.newpage THEN page + 1 ELSE page
       IN  /\ page' = pg
           /\ drawn' = Append(drawn, Draw(pg, b.y, "heading", "Scenario Analysis"))
           /\ y_pos' = b.y - inch \div 2
    /\ k' = 1
    /\ pc' = "gen_block"
    /\ UNCHANGED <<entry, args, filename>>
    /\ UNCHANGED calcVars
    /\ UNCHANGED envVars

\* Line 109: "if scenarios:" fails (None or an empty list).
Gen_NoScenarios ==
    /\ pc = "gen_scenarios"
    /\ ~Truthy(scenario_results)
    /\ pc' = "gen_footer"
    /\ UNCHANGED <<entry, args>>
    /\ UNCHANGED genVars
    /\ UNCHANGED calcVars
    /\ UNCHANGED envVars

\* Lines 117-124: one scenario block, after a page-break check.
Gen_ScenarioBlock ==
    /\ pc = "gen_block"
    /\ k <= Len(scenario_results.list)
    /\ LET name == scenario_results.list[k][1]
           b    == check_page_break(y_pos, 1 * inch)
           pg   == IF b.newpage THEN page + 1 ELSE page
           y0   == b.y
           y1   == y0 - (3 * inch) \div 10
           y2   == y1 - (3 * inch) \div 10
       IN  /\ page' = pg
           /\ drawn' = drawn \o
                << Draw(pg, y0, "scenario", name),
                   Draw(pg, y1, "body", "affordable_property_price"),
                   Draw(pg, y2, "body", "estimated_monthly_payment") >>
           /\ y_pos' = y2 - inch \div 2
    /\ k' = k + 1
    /\ UNCHANGED <<entry, pc, args, filename>>
    /\ UNCHANGED calcVars
    /\ UNCHANGED envVars

\* Line 117: the loop is exhausted.
Gen_BlocksDone ==
    /\ pc = "gen_block"
    /\ k > Len(scenario_results.list)
    /\ pc' = "gen_footer"
    /\ UNCHANGED <<entry, args>>
    /\ UNCHANGED genVars
    /\ UNCHANGED calcVars
    /\ UNCHANGED envVars

\* A slip of line 129: the disclaimer drawn at the cursor.
Gen_Footer_AtCursor ==
    /\ pc = "gen_footer"
    /\ LET b  == check_page_break(y_pos, 1 * inch)
           pg == IF b.newpage THEN page + 1 ELSE page
       IN  /\ page' = pg
           /\ y_pos' = b.y
           /\ drawn' = Append(drawn, Draw(pg, b.y, "disclaimer", "Disclaimer"))
    /\ pc' = "gen_save"
    /\ UNCHANGED <<entry, args, filename, k>>
    /\ UNCHANGED calcVars
    /\ UNCHANGED envVars

\* Lines 126-129: the disclaimer, after a page-break check.
Gen_Footer ==
    /\ pc = "gen_footer"
    /\ LET b  == check_page_break(y_pos, 1 * inch)
           pg == IF b.newpage THEN page + 1 ELSE page
       IN  /\ page' = pg
           /\ y_pos' = b.y
           /\ drawn' = Append(drawn, Draw(pg, FooterY, "disclaimer", "Disclaimer"))
    /\ pc' = "gen_save"
    /\ UNCHANGED <<entry, args, filename, k>>
    /\ UNCHANGED calcVars
    /\ UNCHANGED envVars

\* Lines 131-132: c.save() writes the file named filename.
Gen_Save ==
    /\ pc = "gen_save"
    /\ written' = Append(written, filename)
    /\ pc' = "done"
    /\ UNCHANGED <<entry, args, clock, runs>>
    /\ UNCHANGED genVars
    /\ UNCHANGED calcVars

(***************************************************************************)
(* The caller runs the same call again (a re-run of the program).          *)
(***************************************************************************)
Rerun ==
    /\ pc = "done"
    /\ runs < MaxRuns
    /\ runs' = runs + 1
    /\ pc' = StartPc(entry)
    /\ IF entry = "main"
       THEN /\ base_results' = NoResult
            /\ scenario_results' = None
       ELSE UNCHANGED <<base_results, scenario_results>>
    /\ i' = 1
    /\ acc' = <<>>
    /\ UNCHANGED <<entry, args, exc, clock, written>>
    /\ UNCHANGED genVars

Next ==
    \/ Main_Calc
    \/ Main_CallScenarios
    \/ Main_NoScenarios
    \/ Rst_Skip
    \/ Rst_Compute
    \/ Rst_Return
    \/ Gen_Open
    \/ Gen_Header
    \/ Gen_Summary
    \/ Gen_Analysis
    \/ Gen_ScenarioHeading
    \/ Gen_NoScenarios
    \/ Gen_ScenarioBlock
    \/ Gen_BlocksDone
    \/ Gen_Footer
    \/ Gen_Save
    \/ Rerun

Spec == Init /\ [][Next]_vars

(***************************************************************************)
(* Observations used by the properties.                                    *)
(***************************************************************************)
\* The results computed so far by run_scenario_testing, by label.
Labels(list) == [j \in 1..Len(list) |-> list[j][1]]

HasLabel(list, name) == \E j \in 1..Len(list) : list[j][1] = name

ResultOf(list, name) ==
    list[CHOOSE j \in 1..Len(list) : list[j][1] = name][2]

\* Every result record calculate_affordability has returned in this state.
AllResults ==
    (IF base_results.ok THEN {base_results} ELSE {})
        \cup {acc[j][2] : j \in 1..Len(acc)}

\* The call of run_scenario_testing has ended (returned or raised).
RstEnded ==
    /\ entry = "run_scenario_testing"
    /\ pc \in {"returned", "raised"}

\* The labels the contract promises for a deposit.
ExpectedLabels(deposit) ==
    (IF FLe(FZero, deposit)
     THEN <<"Base Case", "High Interest Rate (+1.5%)">> ELSE <<>>)
    \o (IF FLe(FZero, FSub(deposit, FromInt(10000)))
        THEN <<"Lower Deposit (-10,000)">> ELSE <<>>)

C3_NeverOverwrites ==
    \A a, b \in 1..Len(written) : a # b => written[a] # written[b]

(***************************************************************************)
(* The report.                                                             *)
(***************************************************************************)
\* generate_pdf_report has drawn everything and is about to save, or has.
Rendered == pc \in {"gen_save", "done"}

\* generate_pdf_report is running and has not reached the footer's draw.
Rendering ==
    pc \in {"gen_header", "gen_summary", "gen_analysis", "gen_scenarios",
            "gen_block", "gen_footer"}

\* Scenario blocks the report holds.
Blocks == IF Truthy(scenario_results) THEN Len(scenario_results.list) ELSE 0

Disclaimers == {j \in 1..Len(drawn) : drawn[j].kind = "disclaimer"}

(***************************************************************************)
(* C4: whatever the scenario list (None, empty, any length), the           *)
(* disclaimer is drawn exactly once, after every header, summary, analysis *)
(* and scenario line and last before the save, at 0.75 inch above the page *)
(* bottom whatever the cursor.                                             *)
(***************************************************************************)
C4_DisclaimerLastAtFixedOffset ==
    /\ Rendering => Disclaimers = {}
    /\ Rendered =>
          /\ Len(drawn) = 13 + (IF Blocks > 0 THEN 1 + 3 * Blocks ELSE 0)
          /\ Disclaimers = {Len(drawn)}
          /\ 4 * drawn[Len(drawn)].y = 3 * inch
          /\ drawn[Len(drawn)].page = page

\* A later page, with the cursor reset to the top margin by the last check.
C4_Witness ==
    /\ pc = "gen_save"
    /\ Blocks >= 3
    /\ page >= 2
    /\ y_pos = TopMargin
    /\ drawn[Len(drawn)].y # y_pos

(***************************************************************************)
(* C5: for a scenario list of any length every line above the footer is    *)
(* drawn strictly above the page bottom and no higher than the top margin  *)
(* (height - 1 inch); a page starts only with a heading, a scenario        *)
(* block's first line or the footer, the first line of a new page is at    *)
(* the top margin, and a scenario block starts a new page exactly when     *)
(* the cursor left by the line before it is below 1 inch.                  *)
(***************************************************************************)
C5_EveryLineOnItsPage ==
    /\ \A j \in 1..Len(drawn) :
          drawn[j].kind # "disclaimer" =>
              (0 < drawn[j].y /\ drawn[j].y <= height - inch)
    /\ \A j \in 2..Len(drawn) :
          LET d    == drawn[j]
              prev == drawn[j - 1]
              cur  == prev.y - inch \div 2
          IN  /\ d.page \in {prev.page, prev.page + 1}
              /\ d.page # prev.page =>
                    /\ d.kind \in {"heading", "scenario", "disclaimer"}
                    /\ d.kind # "disclaimer" => d.y = height - inch
              /\ d.kind = "scenario" =>
                    IF cur < inch
                    THEN d.page = prev.page + 1 /\ d.y = height - inch
                    ELSE d.page = prev.page /\ d.y = cur

\* Three pages: a list long enough to fill the second page too.
C5_Witness ==
    /\ Rendered
    /\ page = 3
    /\ \E j \in 1..Len(drawn) : drawn[j].kind = "scenario" /\ drawn[j].page = 3

(***************************************************************************)
(* C9: in a run of main the report holds no, two or three scenario blocks. *)
(* With none or two the whole report, disclaimer included, is on page 1.   *)
(* With three the cursor after the last block is 0.7 inch, below the       *)
(* 1 inch of the last page-break check, and the disclaimer is the only     *)
(* text on page 2.                                                         *)
(***************************************************************************)
C9_PageCount ==
    entry = "main" =>
        /\ (pc = "gen_footer" /\ Blocks = 3) =>
              (10 * y_pos = 7 * inch /\ y_pos < 1 * inch)
        /\ Rendered =>
              /\ Blocks \in {0, 2, 3}
              /\ Blocks = 3 <=> FLe(FromInt(10000), args.deposit) /\ args.scenario
              /\ IF Blocks = 3
                 THEN /\ page = 2
                      /\ {j \in 1..Len(drawn) : drawn[j].page = 2} = {Len(drawn)}
                      /\ drawn[Len(drawn)].kind = "disclaimer"
                 ELSE /\ page = 1
                      /\ \A j \in 1..Len(drawn) : drawn[j].page = 1

C9_Witness ==
    /\ entry = "main"
    /\ pc = "done"
    /\ Blocks = 3
    /\ page = 2

(***************************************************************************)
(* The calculation.                                                        *)
(***************************************************************************)
\* The rate of the calculation whose exception ended the call.
FailedRate ==
    IF entry = "main" /\ ~base_results.ok
    THEN args.rate
    ELSE ScenarioTable(args.rate, args.deposit)[i].rate

\* The last place of x: the gap between neighbouring floats at x.
Ulp(x) == Round(1, x.e)

\* |x - y| is at most n last places of y.
WithinUlps(x, y, n) ==
    FLe(FAbs(FSub(x, y)), FMul(FromInt(n), Ulp(y)))

(***************************************************************************)
(* C6: when the rate is 0 (the monthly rate is not > 0) the amortization   *)
(* formula is not evaluated, so its zero denominator divides nothing, and  *)
(* the monthly payment is (income x 4.5) / 360 exactly, for every income,  *)
(* deposit and debts: as lines 27-30 compute it for the call's arguments,  *)
(* and as estimated_monthly_payment in every result returned.              *)
(***************************************************************************)
C6_ZeroRatePayment ==
    /\ (entry # "generate_pdf_report" /\ ~FLt(FZero, args.rate)) =>
          LET p == monthly_payment_of(
                       max_loan_of(args.income),
                       FDiv(FDiv(args.rate, FromInt(100)), FromInt(12)),
                       MORTGAGE_TERM_YEARS * 12)
          IN  /\ p.ok
              /\ p.value = FDiv(FMul(args.income, Round(9, -1)), FromInt(360))
    /\ \A r \in AllResults :
          ~FLt(FZero, r.interest_rate) =>
              r.estimated_monthly_payment =
                  FDiv(FMul(r.income, Round(9, -1)), FromInt(360))
    /\ (pc = "raised" /\ ~FLt(FZero, FailedRate)) => exc.line # 28

\* A result at rate 0 for a positive income, as the "High Interest Rate"
\* scenario of a base rate of -1.5 too.
C6_Witness ==
    /\ HasLabel(acc, "High Interest Rate (+1.5%)")
    /\ LET r == ResultOf(acc, "High Interest Rate (+1.5%)")
       IN  /\ r.interest_rate = FZero
           /\ FLt(FZero, r.income)
           /\ FLt(FZero, r.estimated_monthly_payment)

(***************************************************************************)
(* C7: for all valid inputs (income > 0, deposit >= 0, debts >= 0) with    *)
(* rate > 0 calculate_affordability computes a monthly payment, and        *)
(* payment x ((1+r)^360 - 1) equals loanAmount x r x (1+r)^360 within      *)
(* rounding (two last places), where r is the monthly rate rate/1200 and   *)
(* loanAmount = income x 4.5.                                              *)
(***************************************************************************)
AmortizationIdentity(res) ==
    LET r    == FDiv(FDiv(res.interest_rate, FromInt(100)), FromInt(12))
        q    == FPow(FAdd(FromInt(1), r), 360)
        loan == FMul(res.income, Round(9, -1))
    IN  WithinUlps(FMul(res.estimated_monthly_payment, FSub(q, FromInt(1))),
                   FMul(loan, FMul(r, q)), 2)

C7_AmortizationIdentity ==
    (/\ entry = "main"
     /\ pc # "main_calc"
     /\ FLt(FZero, args.income)
     /\ FLe(FZero, args.deposit)
     /\ FLe(FZero, args.debts)
     /\ FLt(FZero, args.rate)) =>
        (base_results.ok /\ AmortizationIdentity(base_results))

(***************************************************************************)
(* C8: for every income > 0, whatever the deposit, debts and rate, the     *)
(* max_loan_amount of a result is income x 4.5 exactly, in the results of  *)
(* run_scenario_testing too.                                               *)
(***************************************************************************)
C8_MaxLoanIsIncomeMultiple ==
    \A r \in AllResults :
        FLt(FZero, r.income) =>
            r.max_loan_amount = FMul(r.income, Round(9, -1))

\* Three scenario results for a positive income, with two deposits and rates.
C8_Witness ==
    /\ Len(acc) = 3
    /\ FLt(FZero, args.income)
    /\ acc[1][2].deposit # acc[3][2].deposit
    /\ acc[1][2].interest_rate # acc[2][2].interest_rate
    /\ acc[1][2].max_loan_amount = acc[3][2].max_loan_amount

(***************************************************************************)
(* C10 (as stated): the deposit does not influence the loan, and the       *)
(* 'Lower Deposit' result, when present, has Base Case's monthly payment   *)
(* and DTI ratio and an affordable_property_price exactly 10000 lower.     *)
(***************************************************************************)
BothPresent ==
    /\ HasLabel(acc, "Base Case")
    /\ HasLabel(acc, "Lower Deposit (-10,000)")

SameLoan(a, b) ==
    /\ a.estimated_monthly_payment = b.estimated_monthly_payment
    /\ a.dti_ratio = b.dti_ratio
    /\ a.max_loan_amount = b.max_loan_amount

C10_PriceExactly10000Lower ==
    BothPresent =>
        LET base == ResultOf(acc, "Base Case")
            low  == ResultOf(acc, "Lower Deposit (-10,000)")
        IN  /\ SameLoan(base, low)
            /\ FSub(base.affordable_property_price,
                    low.affordable_property_price) = FromInt(10000)

(***************************************************************************)
(* C10 (amended): two calls that agree on income, debts and rate and       *)
(* differ in deposit both return or both raise, and when they return they  *)
(* agree on estimated_monthly_payment, dti_ratio and max_loan_amount.  The *)
(* 'Lower Deposit' result, when present, has Base Case's payment and DTI   *)
(* ratio, and its affordable_property_price is the rounded sum             *)
(* max_loan_amount + (deposit - 10000): never above Base Case's, and       *)
(* 10000 below it only up to rounding (for an income >= 0, within two      *)
(* last places of Base Case's price).                                      *)
(***************************************************************************)
C10_DepositDoesNotInfluenceLoan ==
    /\ (entry = "main" /\ pc # "main_calc") =>
          \A d \in Deposits :
              LET other == calculate_affordability(args.income, d, args.debts,
                                                   args.rate)
              IN  /\ other.ok = base_results.ok
                  /\ base_results.ok => SameLoan(base_results, other)
    /\ BothPresent =>
          LET base == ResultOf(acc, "Base Case")
              low  == ResultOf(acc, "Lower Deposit (-10,000)")
          IN  /\ SameLoan(base, low)
              /\ low.affordable_property_price =
                    FAdd(low.max_loan_amount,
                         FSub(args.deposit, FromInt(10000)))
              /\ FLe(low.affordable_property_price,
                     base.affordable_property_price)
              /\ FLe(FZero, args.income) =>
                    WithinUlps(FAdd(low.affordable_property_price,
                                    FromInt(10000)),
                               base.affordable_property_price, 2)

\* Both results present and the prices not 10000 apart.
C10_Witness ==
    /\ BothPresent
    /\ FSub(ResultOf(acc, "Base Case").affordable_property_price,
            ResultOf(acc, "Lower Deposit (-10,000)").affordable_property_price)
          # FromInt(10000)
    /\ ResultOf(acc, "Base Case").deposit
          # ResultOf(acc, "Lower Deposit (-10,000)").deposit
====
